---- MODULE Spec2Model ----
(***************************************************************************)
(* Model of src/framework/graphics/texture.cpp: the Texture class, the GL  *)
(* texture objects it drives, the single GL bind slot and the painter's    *)
(* current texture.  Every public operation of Texture is one action; the  *)
(* private helpers are operators on a "machine" record that is threaded    *)
(* through the calls in the order the code makes them.                     *)
(***************************************************************************)
EXTENDS Integers, Sequences, FiniteSets, TLC

(* ---------------------------------------------------------------- bounds *)
\* image and size dimensions are drawn from 1..MaxDim
MaxDim == 3

Dims == 1..MaxDim
Sizes == Dims \X Dims
\* maximum texture sizes the graphics card may report
MaxTextureSizes == {2, 3, 4}
\* channel counts of the images handed to the constructor
Bpps == {3, 4}
\* screen rectangles handed to copyFromScreen: <<x, y, width, height>>
Rects == {<<0, 0, 1, 1>>}

VARIABLES
    caps,      \* g_graphics: what the capability provider answers
    uses,      \* what the program asks for: the sizes, and blank Textures or not
    tex,       \* the Texture objects, by slot
    gl,        \* the GL texture objects, by name (0 is the default texture)
    bound,     \* the name bound to GL_TEXTURE_2D
    painter,   \* g_painter's current texture (a slot, 0 for none)
    calls,     \* the GL calls the last operation issued, in order
    logged,    \* the diagnostics the last operation logged
    lastOp,    \* the last operation, its arguments and its result
    upright,   \* by slot, the transform the Texture had when it last was upright
    mipmapsBy  \* by slot, the operation that set hasMipmaps ("none" while unset)

vars == <<caps, uses, tex, gl, bound, painter, calls, logged, lastOp, upright, mipmapsBy>>

(* ------------------------------------------------------- values and types *)
\* Size(): a size nobody set
DefaultSize == <<0, 0>>

\* Matrix3(): the identity; an entry is the quotient <<numerator, denominator>>
DefaultMatrix == [xs |-> <<1, 1>>, ys |-> <<1, 1>>, yoff |-> <<0, 1>>]

\* the members of a Texture before a constructor body runs
NewTexture ==
    [live |-> TRUE, id |-> 0, size |-> DefaultSize, glSize |-> DefaultSize,
     transform |-> DefaultMatrix, hasMipmaps |-> FALSE, smooth |-> FALSE,
     upsideDown |-> FALSE, repeat |-> FALSE]

\* a slot holding no Texture
NoTexture == [NewTexture EXCEPT !.live = FALSE]

\* a GL texture object as glGenTextures/glBindTexture create it
NewGLTexture ==
    [alloc |-> TRUE, wrapS |-> "GL_REPEAT", wrapT |-> "GL_REPEAT",
     min |-> "GL_NEAREST_MIPMAP_LINEAR", mag |-> "GL_LINEAR", levels |-> <<>>]

\* a texture name that is not in use
NoGLTexture == [NewGLTexture EXCEPT !.alloc = FALSE]

NoOp == [op |-> "none", t |-> 0, arg |-> <<>>, ret |-> TRUE, img |-> <<>>,
         pre |-> NoTexture]

(* ------------------------------------------------------------- the image *)
\* Image: its size, its channel count and which mipmap level its pixels hold
\* buf tells the caller's image from the padded copy the constructor makes
NewImage(size, bpp, buf) == [size |-> size, bpp |-> bpp, level |-> 0, buf |-> buf]

\* Image::getPixelData: the buffer and the level it holds now
getPixelData(img) == <<img.buf, img.level>>

Half(v) == IF v > 1 THEN v \div 2 ELSE 1

\* Image::nextMipmap: halves the image in place, FALSE at 1x1
nextMipmapOk(img) == img.size # <<1, 1>>

nextMipmap(img) ==
    [img EXCEPT !.size = <<Half(img.size[1]), Half(img.size[2])>>,
                !.level = img.level + 1]

(* ------------------------------------------------------------ the helpers *)
\* the machine the helpers run on: the Texture `self`, the GL state, the
\* painter, and what the call has issued and logged so far
Machine(t) ==
    [self |-> t, t |-> tex[t], gl |-> gl, bound |-> bound, painter |-> painter,
     calls |-> <<>>, logged |-> 0, ret |-> TRUE, img |-> <<>>]

GLCall(m, fn, arg) ==
    [fn |-> fn, h |-> m.bound, p |-> m.painter, arg |-> arg]

Max(a, b) == IF a > b THEN a ELSE b

RECURSIVE Pow2From(_, _)
Pow2From(r, v) == IF r >= v THEN r ELSE Pow2From(2 * r, v)

\* stdext::to_power_of_two
to_power_of_two(v) == Pow2From(1, v)

\* setupTranformMatrix with a slip: the upright matrix keeps the old offset
setupTranformMatrix_OffsetKept(m) ==
    IF m.t.upsideDown
    THEN [m EXCEPT !.t.transform =
            [xs |-> <<1, m.t.glSize[1]>>,
             ys |-> <<-1, m.t.glSize[2]>>,
             yoff |-> <<m.t.size[2], m.t.glSize[2]>>]]
    ELSE [m EXCEPT !.t.transform =
            [xs |-> <<1, m.t.glSize[1]>>,
             ys |-> <<1, m.t.glSize[2]>>,
             yoff |-> m.t.transform.yoff]]

\* Texture::setupTranformMatrix
setupTranformMatrix(m) ==
    IF m.t.upsideDown
    THEN [m EXCEPT !.t.transform =
            [xs |-> <<1, m.t.glSize[1]>>,
             ys |-> <<-1, m.t.glSize[2]>>,
             yoff |-> <<m.t.size[2], m.t.glSize[2]>>]]
    ELSE [m EXCEPT !.t.transform =
            [xs |-> <<1, m.t.glSize[1]>>,
             ys |-> <<1, m.t.glSize[2]>>,
             yoff |-> <<0, 1>>]]

\* setupSize with a slip: only the width is held against the maximum
setupSize_WidthOnly(m, size, forcePowerOfTwo) ==
    LET glSize == IF ~caps.npot \/ forcePowerOfTwo
                  THEN <<to_power_of_two(size[1]), to_power_of_two(size[2])>>
                  ELSE size
    IN  IF glSize[1] > caps.maxSize
        THEN [m EXCEPT !.logged = m.logged + 1, !.ret = FALSE]
        ELSE setupTranformMatrix(
                 [m EXCEPT !.t.size = size, !.t.glSize = glSize, !.ret = TRUE])

\* setupSize with a slip: the height is rounded from the width
setupSize_WidthTwice(m, size, forcePowerOfTwo) ==
    LET glSize == IF ~caps.npot \/ forcePowerOfTwo
                  THEN <<to_power_of_two(size[1]), to_power_of_two(size[1])>>
                  ELSE size
    IN  IF Max(glSize[1], glSize[2]) > caps.maxSize
        THEN [m EXCEPT !.logged = m.logged + 1, !.ret = FALSE]
        ELSE setupTranformMatrix(
                 [m EXCEPT !.t.size = size, !.t.glSize = glSize, !.ret = TRUE])

\* setupSize with a slip: it rounds whatever the graphics card supports
setupSize_AlwaysRound(m, size, forcePowerOfTwo) ==
    LET glSize == <<to_power_of_two(size[1]), to_power_of_two(size[2])>>
    IN  IF Max(glSize[1], glSize[2]) > caps.maxSize
        THEN [m EXCEPT !.logged = m.logged + 1, !.ret = FALSE]
        ELSE setupTranformMatrix(
                 [m EXCEPT !.t.size = size, !.t.glSize = glSize, !.ret = TRUE])

\* setupSize with a slip: the maximum is never looked at
setupSize_NoMaximum(m, size, forcePowerOfTwo) ==
    LET glSize == IF ~caps.npot \/ forcePowerOfTwo
                  THEN <<to_power_of_two(size[1]), to_power_of_two(size[2])>>
                  ELSE size
    IN  setupTranformMatrix(
            [m EXCEPT !.t.size = size, !.t.glSize = glSize, !.ret = TRUE])

\* setupSize with a slip: forcePowerOfTwo is not looked at
setupSize_ForceIgnored(m, size, forcePowerOfTwo) ==
    LET glSize == IF ~caps.npot
                  THEN <<to_power_of_two(size[1]), to_power_of_two(size[2])>>
                  ELSE size
    IN  IF Max(glSize[1], glSize[2]) > caps.maxSize
        THEN [m EXCEPT !.logged = m.logged + 1, !.ret = FALSE]
        ELSE setupTranformMatrix(
                 [m EXCEPT !.t.size = size, !.t.glSize = glSize, !.ret = TRUE])

\* Texture::setupSize: the machine afterwards; ret is the result
setupSize(m, size, forcePowerOfTwo) ==
    LET glSize == IF ~caps.npot \/ forcePowerOfTwo
                  THEN <<to_power_of_two(size[1]), to_power_of_two(size[2])>>
                  ELSE size
    IN  IF Max(glSize[1], glSize[2]) > caps.maxSize
        THEN [m EXCEPT !.logged = m.logged + 1, !.ret = FALSE]
        ELSE setupTranformMatrix(
                 [m EXCEPT !.t.size = size, !.t.glSize = glSize, !.ret = TRUE])

\* Texture::createTexture: glGenTextures hands out a name that is not in use
createTexture(m, name) ==
    [m EXCEPT !.t.id = name,
              !.gl[name] = NewGLTexture,
              !.calls = Append(m.calls, GLCall(m, "glGenTextures", <<name>>))]

\* Texture::bind
bind(m) ==
    LET m1 == [m EXCEPT !.painter = m.self]
        m2 == [m1 EXCEPT !.bound = m.t.id]
    IN  [m2 EXCEPT !.calls = Append(m.calls, GLCall(m2, "glBindTexture", <<m.t.id>>))]

\* glTexParameteri on the texture bound to GL_TEXTURE_2D
glTexParameteri(m, pname, param) ==
    LET g == m.gl[m.bound]
        g1 == CASE pname = "GL_TEXTURE_WRAP_S" -> [g EXCEPT !.wrapS = param]
                [] pname = "GL_TEXTURE_WRAP_T" -> [g EXCEPT !.wrapT = param]
                [] pname = "GL_TEXTURE_MIN_FILTER" -> [g EXCEPT !.min = param]
                [] pname = "GL_TEXTURE_MAG_FILTER" -> [g EXCEPT !.mag = param]
    IN  [m EXCEPT !.gl[m.bound] = g1,
                  !.calls = Append(m.calls, GLCall(m, "glTexParameteri", <<pname, param>>))]

\* setupWrap with a slip: clamp-to-edge support is not asked for
setupWrap_ClampUnasked(m) ==
    LET texParam == IF ~m.t.repeat THEN "GL_CLAMP_TO_EDGE" ELSE "GL_REPEAT"
    IN  glTexParameteri(glTexParameteri(m, "GL_TEXTURE_WRAP_S", texParam),
                        "GL_TEXTURE_WRAP_T", texParam)

\* Texture::setupWrap
setupWrap(m) ==
    LET texParam == IF ~m.t.repeat /\ caps.clamp THEN "GL_CLAMP_TO_EDGE" ELSE "GL_REPEAT"
    IN  glTexParameteri(glTexParameteri(m, "GL_TEXTURE_WRAP_S", texParam),
                        "GL_TEXTURE_WRAP_T", texParam)

\* Texture::setupFilters
setupFilters(m) ==
    LET minFilter == IF m.t.smooth
                     THEN (IF m.t.hasMipmaps THEN "GL_LINEAR_MIPMAP_LINEAR" ELSE "GL_LINEAR")
                     ELSE (IF m.t.hasMipmaps THEN "GL_NEAREST_MIPMAP_NEAREST" ELSE "GL_NEAREST")
        magFilter == IF m.t.smooth THEN "GL_LINEAR" ELSE "GL_NEAREST"
    IN  glTexParameteri(glTexParameteri(m, "GL_TEXTURE_MIN_FILTER", minFilter),
                        "GL_TEXTURE_MAG_FILTER", magFilter)

\* the upload format of a channel count
Format(channels) ==
    CASE channels = 4 -> "GL_RGBA"
      [] channels = 3 -> "GL_RGB"
      [] channels = 2 -> "GL_LUMINANCE_ALPHA"
      [] channels = 1 -> "GL_LUMINANCE"
      [] OTHER -> "0"

\* Texture::setupPixels: glTexImage2D of one level of the bound texture
setupPixels(m, level, size, pixels, channels) ==
    LET g == m.gl[m.bound]
        lv == IF level < Len(g.levels)
              THEN [g.levels EXCEPT ![level + 1] = size]
              ELSE Append(g.levels, size)
    IN  [m EXCEPT !.gl[m.bound].levels = lv,
                  !.calls = Append(m.calls,
                      GLCall(m, "glTexImage2D", <<level, size, Format(channels), pixels>>))]

(* ------------------------------------------------- the public operations *)
\* Texture::Texture()
TextureDefault(m) == [m EXCEPT !.t.id = 0]

\* Texture(const Size&) with a slip: the filters are applied before the wrap
TextureFromSize_FiltersFirst(m, size, name) ==
    LET m0 == [m EXCEPT !.t.id = 0]
        m1 == setupSize(m0, size, FALSE)
    IN  IF ~m1.ret THEN m1
        ELSE LET m2 == createTexture(m1, name)
                 m3 == bind(m2)
                 m4 == setupPixels(m3, 0, m3.t.glSize, <<"nullptr", 0>>, 4)
                 m5 == setupFilters(m4)
             IN  setupWrap(m5)

\* Texture::Texture(const Size&)
TextureFromSize(m, size, name) ==
    LET m0 == [m EXCEPT !.t.id = 0]
        m1 == setupSize(m0, size, FALSE)
    IN  IF ~m1.ret THEN m1
        ELSE LET m2 == createTexture(m1, name)
                 m3 == bind(m2)
                 m4 == setupPixels(m3, 0, m3.t.glSize, <<"nullptr", 0>>, 4)
                 m5 == setupWrap(m4)
             IN  setupFilters(m5)

\* the do/while with a slip: the level index is not advanced
RECURSIVE uploadMipmaps_LevelStuck(_, _, _)
uploadMipmaps_LevelStuck(m, glImage, level) ==
    LET m1 == setupPixels(m, level, glImage.size, getPixelData(glImage), glImage.bpp)
    IN  IF nextMipmapOk(glImage)
        THEN uploadMipmaps_LevelStuck(m1, nextMipmap(glImage), level)
        ELSE [m1 EXCEPT !.img = glImage]

\* the do/while of Texture::Texture(const ImagePtr&, bool): upload the level,
\* ask the image for the next one
RECURSIVE uploadMipmaps(_, _, _)
uploadMipmaps(m, glImage, level) ==
    LET m1 == setupPixels(m, level, glImage.size, getPixelData(glImage), glImage.bpp)
    IN  IF nextMipmapOk(glImage)
        THEN uploadMipmaps(m1, nextMipmap(glImage), level + 1)
        ELSE [m1 EXCEPT !.img = glImage]

\* Texture(const ImagePtr&, bool) with a slip: the levels are always taken
\* from a copy, the caller's image is never the one that is halved
TextureFromImage_AlwaysCopies(m, image, buildMipmaps, name) ==
    LET m0 == [m EXCEPT !.t.id = 0, !.img = image]
        m1 == setupSize(m0, image.size, buildMipmaps)
    IN  IF ~m1.ret THEN m1
        ELSE LET m2 == createTexture(m1, name)
                 glImage == NewImage(m2.t.glSize, image.bpp, "padded")
                 m3 == bind(m2)
                 m4 == IF buildMipmaps
                       THEN LET u == uploadMipmaps(m3, glImage, 0)
                            IN  [u EXCEPT !.t.hasMipmaps = TRUE, !.img = image]
                       ELSE setupPixels(m3, 0, glImage.size, getPixelData(glImage),
                                        glImage.bpp)
                 m5 == setupWrap(m4)
             IN  setupFilters(m5)

\* Texture::Texture(const ImagePtr&, bool); img is the caller's image afterwards
TextureFromImage(m, image, buildMipmaps, name) ==
    LET m0 == [m EXCEPT !.t.id = 0, !.img = image]
        m1 == setupSize(m0, image.size, buildMipmaps)
    IN  IF ~m1.ret THEN m1
        ELSE LET m2 == createTexture(m1, name)
                 padded == m2.t.size # m2.t.glSize
                 glImage == IF padded
                            THEN NewImage(m2.t.glSize, image.bpp, "padded")
                            ELSE image
                 m3 == bind(m2)
                 m4 == IF buildMipmaps
                       THEN LET u == uploadMipmaps(m3, glImage, 0)
                            IN  [u EXCEPT !.t.hasMipmaps = TRUE,
                                          !.img = IF padded THEN image ELSE u.img]
                       ELSE setupPixels(m3, 0, glImage.size, getPixelData(glImage),
                                        glImage.bpp)
                 m5 == setupWrap(m4)
             IN  setupFilters(m5)

\* ~Texture with a slip: glDeleteTextures is called whatever m_id is (GL
\* ignores the name 0)
TextureDtor_Unguarded(m) ==
    IF m.t.id > 0
    THEN [m EXCEPT !.gl[m.t.id] = NoGLTexture,
                   !.bound = IF m.bound = m.t.id THEN 0 ELSE m.bound,
                   !.calls = Append(m.calls, GLCall(m, "glDeleteTextures", <<m.t.id>>)),
                   !.t = NoTexture]
    ELSE [m EXCEPT !.calls = Append(m.calls, GLCall(m, "glDeleteTextures", <<m.t.id>>)),
                   !.t = NoTexture]

\* Texture::~Texture, with glDeleteTextures: the name is free again and a
\* deleted texture that is bound leaves the default texture bound
TextureDtor(m) ==
    IF m.t.id > 0
    THEN [m EXCEPT !.gl[m.t.id] = NoGLTexture,
                   !.bound = IF m.bound = m.t.id THEN 0 ELSE m.bound,
                   !.calls = Append(m.calls, GLCall(m, "glDeleteTextures", <<m.t.id>>)),
                   !.t = NoTexture]
    ELSE [m EXCEPT !.t = NoTexture]

\* copyFromScreen with a slip: the Texture takes the size of the rectangle
copyFromScreen_TakesRectSize(m, screenRect) ==
    LET m1 == bind([m EXCEPT !.t.size = <<screenRect[3], screenRect[4]>>])
    IN  [m1 EXCEPT !.calls = Append(m1.calls,
                       GLCall(m1, "glCopyTexSubImage2D", <<0, 0, 0>> \o screenRect))]

\* Texture::copyFromScreen
copyFromScreen(m, screenRect) ==
    LET m1 == bind(m)
    IN  [m1 EXCEPT !.calls = Append(m1.calls,
                       GLCall(m1, "glCopyTexSubImage2D", <<0, 0, 0>> \o screenRect))]

\* buildHardwareMipmaps with a slip: the mipmaps are asked for before the
\* filters are applied
buildHardwareMipmaps_GenerateFirst(m) ==
    IF ~caps.hwmip THEN [m EXCEPT !.ret = FALSE]
    ELSE LET m1 == bind(m)
             m2 == [m1 EXCEPT !.calls = Append(m1.calls, GLCall(m1, "glGenerateMipmap", <<>>)),
                              !.ret = TRUE]
         IN  IF ~m2.t.hasMipmaps
             THEN setupFilters([m2 EXCEPT !.t.hasMipmaps = TRUE])
             ELSE m2

\* Texture::buildHardwareMipmaps
buildHardwareMipmaps(m) ==
    IF ~caps.hwmip THEN [m EXCEPT !.ret = FALSE]
    ELSE LET m1 == bind(m)
             m2 == IF ~m1.t.hasMipmaps
                   THEN setupFilters([m1 EXCEPT !.t.hasMipmaps = TRUE])
                   ELSE m1
         IN  [m2 EXCEPT !.calls = Append(m2.calls, GLCall(m2, "glGenerateMipmap", <<>>)),
                        !.ret = TRUE]

\* setSmooth with a slip: the filters go to whatever texture is bound
setSmooth_NoBind(m, smooth) ==
    IF smooth /\ ~caps.bilinear THEN m
    ELSE IF smooth = m.t.smooth THEN m
    ELSE setupFilters([m EXCEPT !.t.smooth = smooth])

\* setSmooth with a slip: bilinear filtering support is not asked for
setSmooth_SupportUnasked(m, smooth) ==
    IF smooth = m.t.smooth THEN m
    ELSE setupFilters(bind([m EXCEPT !.t.smooth = smooth]))

\* Texture::setSmooth
setSmooth(m, smooth) ==
    IF smooth /\ ~caps.bilinear THEN m
    ELSE IF smooth = m.t.smooth THEN m
    ELSE setupFilters(bind([m EXCEPT !.t.smooth = smooth]))

\* setRepeat with a slip: the wrap is applied without binding first
setRepeat_NoBind(m, repeat) ==
    IF m.t.repeat = repeat THEN m
    ELSE setupWrap([m EXCEPT !.t.repeat = repeat])

\* setRepeat with a slip: the unchanged value is not short-cut
setRepeat_NoShortCut(m, repeat) ==
    setupWrap(bind([m EXCEPT !.t.repeat = repeat]))

\* Texture::setRepeat
setRepeat(m, repeat) ==
    IF m.t.repeat = repeat THEN m
    ELSE setupWrap(bind([m EXCEPT !.t.repeat = repeat]))

\* setUpsideDown with a slip: the transform is left as it was
setUpsideDown_NoTransform(m, upsideDown) ==
    IF m.t.upsideDown = upsideDown THEN m
    ELSE [m EXCEPT !.t.upsideDown = upsideDown]

\* setUpsideDown with a slip: it binds like the other setters
setUpsideDown_Binds(m, upsideDown) ==
    IF m.t.upsideDown = upsideDown THEN m
    ELSE setupTranformMatrix(bind([m EXCEPT !.t.upsideDown = upsideDown]))

\* Texture::setUpsideDown
setUpsideDown(m, upsideDown) ==
    IF m.t.upsideDown = upsideDown THEN m
    ELSE setupTranformMatrix([m EXCEPT !.t.upsideDown = upsideDown])

(* ------------------------------------------------------------ the actions *)
\* an operation ran to completion: its machine becomes the state
Commit(m, op, arg) ==
    /\ tex' = [tex EXCEPT ![m.self] = m.t]
    /\ gl' = m.gl
    /\ bound' = m.bound
    /\ painter' = m.painter
    /\ calls' = m.calls
    /\ logged' = m.logged
    /\ lastOp' = [op |-> op, t |-> m.self, arg |-> arg, ret |-> m.ret, img |-> m.img,
                  pre |-> IF op = "~Texture" THEN NoTexture ELSE tex[m.self]]
    /\ upright' = IF m.t.upsideDown THEN upright
                  ELSE [upright EXCEPT ![m.self] = m.t.transform]
    /\ mipmapsBy' = [mipmapsBy EXCEPT ![m.self] =
                        IF ~m.t.hasMipmaps THEN "none"
                        ELSE IF tex[m.self].hasMipmaps THEN @
                        ELSE op]
    /\ UNCHANGED <<caps, uses>>

\* the machine of a constructor: the members as the class declares them
Fresh(t) == [Machine(t) EXCEPT !.t = NewTexture]

Slots == DOMAIN tex

FreeNames == {n \in DOMAIN gl \ {0} : ~gl[n].alloc}

ConstructDefault(t) ==
    /\ ~tex[t].live
    /\ uses.blank
    /\ Commit(TextureDefault(Fresh(t)), "Texture", <<>>)

ConstructFromSize(t) ==
    /\ ~tex[t].live
    /\ \E size \in uses.sizes, name \in FreeNames :
         Commit(TextureFromSize(Fresh(t), size, name), "TextureFromSize", <<size>>)

ConstructFromImage(t) ==
    /\ ~tex[t].live
    /\ \E size \in uses.sizes, bpp \in Bpps, buildMipmaps \in BOOLEAN, name \in FreeNames :
         Commit(TextureFromImage(Fresh(t), NewImage(size, bpp, "source"), buildMipmaps, name),
                "TextureFromImage", <<size, buildMipmaps, bpp>>)

Destroy(t) ==
    /\ tex[t].live
    /\ Commit(TextureDtor(Machine(t)), "~Texture", <<tex[t].id>>)

CallBind(t) ==
    /\ tex[t].live
    /\ Commit(bind(Machine(t)), "bind", <<>>)

CallCopyFromScreen(t) ==
    /\ tex[t].live
    /\ \E r \in Rects : Commit(copyFromScreen(Machine(t), r), "copyFromScreen", <<r>>)

CallBuildHardwareMipmaps(t) ==
    /\ tex[t].live
    /\ Commit(buildHardwareMipmaps(Machine(t)), "buildHardwareMipmaps", <<>>)

CallSetSmooth(t) ==
    /\ tex[t].live
    /\ \E v \in BOOLEAN : Commit(setSmooth(Machine(t), v), "setSmooth", <<v>>)

CallSetRepeat(t) ==
    /\ tex[t].live
    /\ \E v \in BOOLEAN : Commit(setRepeat(Machine(t), v), "setRepeat", <<v>>)

CallSetUpsideDown(t) ==
    /\ tex[t].live
    /\ \E v \in BOOLEAN : Commit(setUpsideDown(Machine(t), v), "setUpsideDown", <<v>>)

Capabilities ==
    [npot : BOOLEAN, bilinear : BOOLEAN, clamp : BOOLEAN, hwmip : BOOLEAN,
     maxSize : MaxTextureSizes]

\* the programs explored: one Texture at a time, of any size, blank ones
\* too, on any graphics card; or two Textures at a time, of one padded size
\* that the card can hold, on a card with every optional feature
Worlds ==
    {[slots |-> {1}, sizes |-> Sizes, blank |-> TRUE, caps |-> Capabilities],
     [slots |-> {1, 2}, sizes |-> {<<3, 2>>}, blank |-> FALSE,
      caps |-> {c \in Capabilities : c.bilinear /\ c.clamp /\ c.hwmip /\ c.maxSize = 4}]}

Init ==
    /\ \E w \in Worlds :
         /\ caps \in w.caps
         /\ uses = [sizes |-> w.sizes, blank |-> w.blank]
         /\ tex = [t \in w.slots |-> NoTexture]
         /\ gl = [h \in {0} \cup w.slots |-> IF h = 0 THEN NewGLTexture ELSE NoGLTexture]
    /\ bound = 0
    /\ painter = 0
    /\ calls = <<>>
    /\ logged = 0
    /\ lastOp = NoOp
    /\ upright = [t \in DOMAIN tex |-> DefaultMatrix]
    /\ mipmapsBy = [t \in DOMAIN tex |-> "none"]

Next ==
    \/ \E t \in Slots : ConstructDefault(t)
    \/ \E t \in Slots : ConstructFromSize(t)
    \/ \E t \in Slots : ConstructFromImage(t)
    \/ \E t \in Slots : Destroy(t)
    \/ \E t \in Slots : CallBind(t)
    \/ \E t \in Slots : CallCopyFromScreen(t)
    \/ \E t \in Slots : CallBuildHardwareMipmaps(t)
    \/ \E t \in Slots : CallSetSmooth(t)
    \/ \E t \in Slots : CallSetRepeat(t)
    \/ \E t \in Slots : CallSetUpsideDown(t)

Spec == Init /\ [][Next]_vars

(* ================================================================ claims *)
Live == {t \in Slots : tex[t].live}
Valid == {t \in Live : tex[t].id # 0}

Constructors == {"TextureFromSize", "TextureFromImage"}

\* the size a constructor call asked for, and whether it forced power of two
AskedSize == lastOp.arg[1]
AskedPowerOfTwo == lastOp.op = "TextureFromImage" /\ lastOp.arg[2]

IsPowerOfTwo(n) == \E k \in 0..n : 2 ^ k = n

\* the smallest power of two that is at least v, said without computing it
SmallestPowerOfTwo(v) ==
    CHOOSE p \in 1..(2 * v) :
        /\ IsPowerOfTwo(p)
        /\ p >= v
        /\ \A q \in 1..(p - 1) : IsPowerOfTwo(q) => q < v

\* the storage size the size negotiation should arrive at
RoundedSize(size, powerOfTwo) ==
    IF ~caps.npot \/ powerOfTwo
    THEN <<SmallestPowerOfTwo(size[1]), SmallestPowerOfTwo(size[2])>>
    ELSE size

\* the operations a handle of 0 should turn into no-ops
GuardedOps == {"setSmooth", "setRepeat", "buildHardwareMipmaps", "copyFromScreen"}

\* C1: setSmooth, setRepeat, buildHardwareMipmaps and copyFromScreen on a
\* Texture whose handle is 0 issue no GL call, leave the painter's texture
\* alone and change no field of the Texture.
C1_InvalidHandleNoOp ==
    [][\A t \in Slots :
         (tex[t].live /\ tex[t].id = 0 /\ lastOp'.t = t /\ lastOp'.op \in GuardedOps)
         => (calls' = <<>> /\ painter' = painter /\ tex' = tex)]_vars

\* C2: a construction whose rounded storage size exceeds the maximum texture
\* size leaves the handle 0, logs exactly one diagnostic and issues no GL call.
C2_TooLargeIsInvalid ==
    (/\ lastOp.op \in Constructors
     /\ LET r == RoundedSize(AskedSize, AskedPowerOfTwo)
        IN  Max(r[1], r[2]) > caps.maxSize)
    => (tex[lastOp.t].id = 0 /\ logged = 1 /\ calls = <<>>)

\* C2 happens: an image within the maximum whose rounding exceeds it
C2_Witness ==
    /\ lastOp.op = "TextureFromImage"
    /\ Max(AskedSize[1], AskedSize[2]) <= caps.maxSize
    /\ LET r == RoundedSize(AskedSize, AskedPowerOfTwo)
       IN  Max(r[1], r[2]) > caps.maxSize
    /\ tex[lastOp.t].id = 0
    /\ logged = 1

\* C3: a successful construction without non-power-of-two support, or with
\* power of two forced, stores each dimension as the smallest power of two
\* that is at least the logical dimension, each on its own.
C3_RoundsUpToPowerOfTwo ==
    (/\ lastOp.op \in Constructors
     /\ tex[lastOp.t].id # 0
     /\ (~caps.npot \/ AskedPowerOfTwo))
    => /\ tex[lastOp.t].size = AskedSize
       /\ tex[lastOp.t].glSize[1] = SmallestPowerOfTwo(AskedSize[1])
       /\ tex[lastOp.t].glSize[2] = SmallestPowerOfTwo(AskedSize[2])

\* C3 happens: 3x2 is stored as 4x2 because the mipmaps force it
C3_Witness ==
    /\ lastOp.op = "TextureFromImage"
    /\ lastOp.arg[2]
    /\ caps.npot
    /\ tex[lastOp.t].id # 0
    /\ tex[lastOp.t].size = <<3, 2>>
    /\ tex[lastOp.t].glSize = <<4, 2>>

\* C4 as claimed: with non-power-of-two support and the asked size within
\* the maximum, every constructor, whatever buildMipmaps is, stores the
\* logical size.
C4_StorageIsLogical_AnyMipmaps ==
    (/\ lastOp.op \in Constructors
     /\ caps.npot
     /\ Max(AskedSize[1], AskedSize[2]) <= caps.maxSize)
    => /\ tex[lastOp.t].id # 0
       /\ tex[lastOp.t].size = AskedSize
       /\ tex[lastOp.t].glSize = AskedSize

\* C4 as amended: the same for construct-from-size and for
\* construct-from-image with buildMipmaps false.
C4_StorageIsLogical ==
    (/\ lastOp.op \in Constructors
     /\ ~AskedPowerOfTwo
     /\ caps.npot
     /\ Max(AskedSize[1], AskedSize[2]) <= caps.maxSize)
    => /\ tex[lastOp.t].id # 0
       /\ tex[lastOp.t].size = AskedSize
       /\ tex[lastOp.t].glSize = AskedSize

\* C4 happens: an image that is no power of two, stored as it is
C4_Witness ==
    /\ lastOp.op = "TextureFromImage"
    /\ ~lastOp.arg[2]
    /\ caps.npot
    /\ AskedSize = <<3, 2>>
    /\ tex[lastOp.t].glSize = <<3, 2>>

\* C5: a Texture with a handle has, in both dimensions,
\* logicalSize <= storageSize <= the maximum texture size.
C5_SizeBounds ==
    \A t \in Valid : \A i \in 1..2 :
        /\ tex[t].size[i] <= tex[t].glSize[i]
        /\ tex[t].glSize[i] <= caps.maxSize

\* C5 happens: a padded Texture that fills the maximum
C5_Witness ==
    \E t \in Valid :
        /\ tex[t].size[1] < tex[t].glSize[1]
        /\ tex[t].glSize[1] = caps.maxSize

\* the transform of section 4.4, from the sizes and the orientation
ExpectedTransform(t) ==
    LET sw == tex[t].glSize[1]
        sh == tex[t].glSize[2]
        lh == tex[t].size[2]
    IN  [xs |-> <<1, sw>>,
         ys |-> IF tex[t].upsideDown THEN <<-1, sh>> ELSE <<1, sh>>,
         yoff |-> IF tex[t].upsideDown THEN <<lh, sh>> ELSE <<0, 1>>]

\* C6: after any completed operation the transform of a valid Texture is the
\* one computed from its current storageSize, logicalSize and upsideDown.
C6_TransformNeverStale ==
    \A t \in Valid : tex[t].transform = ExpectedTransform(t)

\* C6 happens: a padded Texture was just turned upside down
C6_Witness ==
    /\ lastOp.op = "setUpsideDown"
    /\ lastOp.t \in Valid
    /\ tex[lastOp.t].upsideDown
    /\ tex[lastOp.t].size # tex[lastOp.t].glSize
    /\ tex[lastOp.t].transform.yoff = <<tex[lastOp.t].size[2], tex[lastOp.t].glSize[2]>>

LinearFilters == {"GL_LINEAR", "GL_LINEAR_MIPMAP_LINEAR"}
MipmapFilters == {"GL_LINEAR_MIPMAP_LINEAR", "GL_NEAREST_MIPMAP_NEAREST"}
FlatFilters == {"GL_LINEAR", "GL_NEAREST"}

\* C7: after every completed operation, on however many Textures, the
\* filters GL holds for the handle of a valid Texture match its smooth and
\* hasMipmaps: magnification linear iff smooth, minification linear iff
\* smooth and mipmapped iff hasMipmaps.
C7_FiltersMatchFlags ==
    \A t \in Valid :
        LET g == gl[tex[t].id]
        IN  /\ g.mag = (IF tex[t].smooth THEN "GL_LINEAR" ELSE "GL_NEAREST")
            /\ g.min \in MipmapFilters \cup FlatFilters
            /\ (g.min \in LinearFilters) = tex[t].smooth
            /\ (g.min \in MipmapFilters) = tex[t].hasMipmaps

\* C7 happens: two Textures alive with different filters, the other one bound
C7_Witness ==
    \E t, u \in Valid :
        /\ t # u
        /\ tex[t].smooth /\ tex[t].hasMipmaps
        /\ ~tex[u].smooth /\ ~tex[u].hasMipmaps
        /\ bound = tex[u].id
        /\ lastOp.op = "setSmooth" /\ lastOp.t = u

\* C8: after every completed operation GL holds one wrap mode for both axes
\* of a valid Texture's handle: clamp-to-edge exactly when repeat is false
\* and clamp-to-edge is supported, repeat otherwise.
C8_WrapMatchesRepeat ==
    \A t \in Valid :
        LET g == gl[tex[t].id]
        IN  /\ g.wrapS = g.wrapT
            /\ g.wrapS = (IF ~tex[t].repeat /\ caps.clamp
                          THEN "GL_CLAMP_TO_EDGE" ELSE "GL_REPEAT")

\* C8 happens: setRepeat(false) without clamp-to-edge support
C8_Witness ==
    /\ lastOp.op = "setRepeat"
    /\ lastOp.arg = <<FALSE>>
    /\ calls # <<>>
    /\ lastOp.t \in Valid
    /\ ~caps.clamp
    /\ gl[tex[lastOp.t].id].wrapS = "GL_REPEAT"

\* C9: setSmooth(v) and setRepeat(v) with the flag already v change no field
\* and issue no bind and no GL call.
C9_SameValueIsNoOp ==
    [][\A t \in Slots :
         (/\ tex[t].live
          /\ lastOp'.t = t
          /\ \/ lastOp'.op = "setSmooth" /\ lastOp'.arg = <<tex[t].smooth>>
             \/ lastOp'.op = "setRepeat" /\ lastOp'.arg = <<tex[t].repeat>>)
         => (/\ calls' = <<>>
             /\ tex' = tex /\ gl' = gl /\ bound' = bound /\ painter' = painter)]_vars

\* C9 happens: setSmooth(true) did nothing on a Texture that is smooth already
C9_Witness ==
    /\ lastOp.op = "setSmooth"
    /\ lastOp.arg = <<TRUE>>
    /\ lastOp.t \in Valid
    /\ tex[lastOp.t].smooth
    /\ calls = <<>>

CallNames(cs) == [i \in 1..Len(cs) |-> cs[i].fn]

\* C10: buildHardwareMipmaps returns false exactly when hardware mipmaps are
\* disallowed, and then binds nothing, calls nothing and changes nothing;
\* otherwise it returns true with hasMipmaps set, binds first, applies the
\* filters only if hasMipmaps was false, and asks GL for the mipmaps once,
\* after the filters.
C10_BuildHardwareMipmaps ==
    [][\A t \in Slots :
         (tex[t].live /\ lastOp'.t = t /\ lastOp'.op = "buildHardwareMipmaps")
         => /\ lastOp'.ret = caps.hwmip
            /\ ~caps.hwmip =>
                 /\ calls' = <<>>
                 /\ tex' = tex /\ gl' = gl /\ bound' = bound /\ painter' = painter
            /\ caps.hwmip =>
                 /\ tex'[t].hasMipmaps
                 /\ tex' = [tex EXCEPT ![t].hasMipmaps = TRUE]
                 /\ calls'[1].fn = "glBindTexture" /\ calls'[1].arg = <<tex[t].id>>
                 /\ CallNames(calls') =
                      IF tex[t].hasMipmaps
                      THEN <<"glBindTexture", "glGenerateMipmap">>
                      ELSE <<"glBindTexture", "glTexParameteri", "glTexParameteri",
                             "glGenerateMipmap">>
                 /\ ~tex[t].hasMipmaps =>
                      /\ calls'[2].arg[1] = "GL_TEXTURE_MIN_FILTER"
                      /\ calls'[3].arg[1] = "GL_TEXTURE_MAG_FILTER"]_vars

\* C10 happens: the mipmaps were built for a Texture that had none
C10_Witness ==
    /\ lastOp.op = "buildHardwareMipmaps"
    /\ lastOp.ret
    /\ lastOp.t \in Valid
    /\ Len(calls) = 4
    /\ calls[4].fn = "glGenerateMipmap"
    /\ tex[lastOp.t].hasMipmaps

\* the calls of a sequence that hand a linear filter to GL
LinearFilterCalls(cs) ==
    {i \in 1..Len(cs) : cs[i].fn = "glTexParameteri" /\ cs[i].arg[2] \in LinearFilters}

\* C11: without bilinear filtering, setSmooth(true) changes nothing and
\* issues no GL call; so no Texture is ever smooth and no operation ever
\* hands GL a linear minification or magnification filter.
C11_NoBilinearNoSmooth ==
    [][~caps.bilinear =>
         /\ \A t \in Slots :
              (tex[t].live /\ lastOp'.t = t /\ lastOp'.op = "setSmooth"
                 /\ lastOp'.arg = <<TRUE>>)
              => (/\ calls' = <<>>
                  /\ tex' = tex /\ gl' = gl /\ bound' = bound /\ painter' = painter)
         /\ \A t \in Slots : ~tex'[t].smooth
         /\ LinearFilterCalls(calls') = {}]_vars

\* C11 happens: setSmooth(true) was refused, and filters were applied before
C11_Witness ==
    /\ ~caps.bilinear
    /\ lastOp.op = "setSmooth"
    /\ lastOp.arg = <<TRUE>>
    /\ lastOp.t \in Valid
    /\ ~tex[lastOp.t].smooth
    /\ calls = <<>>
    /\ gl[tex[lastOp.t].id].mag = "GL_NEAREST"

IsUpload(c) == c.fn = "glTexImage2D"

\* the smallest k with 2^k >= n
CeilLog2(n) == CHOOSE k \in 0..n : 2 ^ k >= n /\ (k = 0 \/ 2 ^ (k - 1) < n)

\* a dimension halved i times, never below 1
HalvedTimes(v, i) == Max(1, v \div (2 ^ i))

\* C12: constructing from an image with buildMipmaps, within the maximum,
\* completes with hasMipmaps set and uploads ceil(log2(max(storageSize))) + 1
\* levels, at the level indices 0, 1, 2, ..., each of the size the pixel
\* buffer has after that many halvings.
C12_MipmapChain ==
    (/\ lastOp.op = "TextureFromImage"
     /\ lastOp.arg[2]
     /\ tex[lastOp.t].id # 0)
    => LET t == tex[lastOp.t]
           uploads == SelectSeq(calls, IsUpload)
       IN  /\ t.hasMipmaps
           /\ Len(uploads) = CeilLog2(Max(t.glSize[1], t.glSize[2])) + 1
           /\ \A i \in 1..Len(uploads) :
                /\ uploads[i].arg[1] = i - 1
                /\ uploads[i].arg[2] = <<HalvedTimes(t.glSize[1], i - 1),
                                         HalvedTimes(t.glSize[2], i - 1)>>
                /\ uploads[i].arg[4][2] = i - 1

\* C12 happens: a 3x2 image, stored 4x2, uploaded as 4x2, 2x1 and 1x1
C12_Witness ==
    /\ lastOp.op = "TextureFromImage"
    /\ lastOp.arg[2]
    /\ tex[lastOp.t].id # 0
    /\ tex[lastOp.t].size = <<3, 2>>
    /\ tex[lastOp.t].glSize = <<4, 2>>
    /\ gl[tex[lastOp.t].id].levels = << <<4, 2>>, <<2, 1>>, <<1, 1>> >>

\* C13: an upright valid Texture has a transform without offset, and turning
\* a valid Texture upside down and back gives the very transform it had
\* before, whatever other mutators ran while it was upside down.
C13_UpsideDownAndBack ==
    [][\A t \in Slots :
         /\ (tex'[t].live /\ tex'[t].id # 0 /\ ~tex'[t].upsideDown)
            => tex'[t].transform.yoff = <<0, 1>>
         /\ (/\ tex[t].live /\ tex[t].id # 0 /\ tex[t].upsideDown
             /\ lastOp'.t = t /\ lastOp'.op = "setUpsideDown" /\ lastOp'.arg = <<FALSE>>)
            => (~tex'[t].upsideDown /\ tex'[t].transform = upright[t])]_vars

\* C13 happens: a padded Texture that was changed while upside down is
\* upright again
C13_Witness ==
    /\ lastOp.op = "setUpsideDown"
    /\ lastOp.arg = <<FALSE>>
    /\ lastOp.t \in Valid
    /\ lastOp.pre.upsideDown
    /\ ~tex[lastOp.t].upsideDown
    /\ tex[lastOp.t].size # tex[lastOp.t].glSize
    /\ tex[lastOp.t].smooth /\ tex[lastOp.t].repeat /\ tex[lastOp.t].hasMipmaps
    /\ tex[lastOp.t].transform = upright[lastOp.t]

Deletes(cs) == {i \in 1..Len(cs) : cs[i].fn = "glDeleteTextures"}

\* C14: destroying a Texture deletes its handle with exactly one call when
\* the handle is not 0 and calls nothing when it is 0; no other operation
\* deletes; so the names in use are always exactly the handles of the
\* Textures alive, one Texture each.
C14_ReleasedOnce ==
    /\ lastOp.op = "~Texture"
       => /\ ~tex[lastOp.t].live
          /\ IF lastOp.arg[1] # 0
             THEN /\ Len(calls) = 1
                  /\ calls[1].fn = "glDeleteTextures"
                  /\ calls[1].arg = lastOp.arg
                  /\ ~gl[lastOp.arg[1]].alloc
             ELSE calls = <<>>
    /\ lastOp.op # "~Texture" => Deletes(calls) = {}
    /\ \A h \in DOMAIN gl \ {0} :
         gl[h].alloc <=> (\E t \in Live : tex[t].id = h)
    /\ \A t, u \in Valid : tex[t].id = tex[u].id => t = u

\* C14 happens: one of two Textures was destroyed, the other keeps its handle
C14_Witness ==
    /\ lastOp.op = "~Texture"
    /\ lastOp.arg[1] # 0
    /\ Len(calls) = 1
    /\ calls[1].fn = "glDeleteTextures"
    /\ ~gl[lastOp.arg[1]].alloc
    /\ \E u \in Valid : gl[tex[u].id].alloc

Mutators ==
    {"bind", "copyFromScreen", "buildHardwareMipmaps", "setSmooth", "setRepeat",
     "setUpsideDown"}

\* C15: once constructed, a Texture keeps its handle, its logicalSize and its
\* storageSize through bind, copyFromScreen, buildHardwareMipmaps, setSmooth,
\* setRepeat and setUpsideDown; a Texture with handle 0 stays so.
C15_NoResizeNoRehandle ==
    lastOp.op \in Mutators
    => /\ tex[lastOp.t].live
       /\ tex[lastOp.t].id = lastOp.pre.id
       /\ tex[lastOp.t].size = lastOp.pre.size
       /\ tex[lastOp.t].glSize = lastOp.pre.glSize

\* C15 happens: a Texture whose construction failed went through
\* buildHardwareMipmaps and still has no handle and no size
C15_Witness ==
    /\ lastOp.op = "buildHardwareMipmaps"
    /\ lastOp.ret
    /\ calls # <<>>
    /\ ~lastOp.pre.hasMipmaps
    /\ tex[lastOp.t].live
    /\ tex[lastOp.t].id = 0
    /\ tex[lastOp.t].glSize = DefaultSize

\* C16: setUpsideDown binds nothing and calls GL never: the bind slot, the
\* painter's texture, GL's texture state and the Texture's handle, sizes,
\* smooth, repeat and hasMipmaps stay as they are, and with the value
\* unchanged so do upsideDown and the transform.
C16_UpsideDownIsLocal ==
    [][\A t \in Slots :
         (tex[t].live /\ lastOp'.t = t /\ lastOp'.op = "setUpsideDown")
         => /\ calls' = <<>>
            /\ gl' = gl /\ bound' = bound /\ painter' = painter
            /\ tex' = [tex EXCEPT ![t].upsideDown = tex'[t].upsideDown,
                                  ![t].transform = tex'[t].transform]
            /\ lastOp'.arg = <<tex[t].upsideDown>> => tex' = tex]_vars

\* C16 happens: a Texture was turned upside down while another one was bound
\* and was the painter's
C16_Witness ==
    /\ lastOp.op = "setUpsideDown"
    /\ lastOp.arg = <<TRUE>>
    /\ ~lastOp.pre.upsideDown
    /\ lastOp.t \in Valid
    /\ tex[lastOp.t].upsideDown
    /\ \E u \in Valid : u # lastOp.t /\ painter = u /\ bound = tex[u].id

\* C17: a successful construct-from-size negotiates the size (and computes
\* the transform), allocates a handle, binds it, uploads level 0 once, of
\* storageSize, RGBA, without source pixels, then applies the wrap, then the
\* filters; hasMipmaps, smooth, repeat and upsideDown are false afterwards.
C17_FromSizeOrder ==
    (lastOp.op = "TextureFromSize" /\ tex[lastOp.t].id # 0)
    => LET t == tex[lastOp.t]
       IN  /\ t.size = AskedSize
           /\ t.transform = ExpectedTransform(lastOp.t)
           /\ CallNames(calls) =
                <<"glGenTextures", "glBindTexture", "glTexImage2D", "glTexParameteri",
                  "glTexParameteri", "glTexParameteri", "glTexParameteri">>
           /\ calls[1].arg = <<t.id>>
           /\ calls[2].arg = <<t.id>>
           /\ calls[3].h = t.id
           /\ calls[3].arg = <<0, t.glSize, "GL_RGBA", <<"nullptr", 0>> >>
           /\ calls[4].arg[1] = "GL_TEXTURE_WRAP_S"
           /\ calls[5].arg[1] = "GL_TEXTURE_WRAP_T"
           /\ calls[6].arg[1] = "GL_TEXTURE_MIN_FILTER"
           /\ calls[7].arg[1] = "GL_TEXTURE_MAG_FILTER"
           /\ ~t.hasMipmaps /\ ~t.smooth /\ ~t.repeat /\ ~t.upsideDown

\* C17 happens: a blank 3x2 Texture stored as 4x2
C17_Witness ==
    /\ lastOp.op = "TextureFromSize"
    /\ tex[lastOp.t].id # 0
    /\ AskedSize = <<3, 2>>
    /\ tex[lastOp.t].glSize = <<4, 2>>
    /\ gl[tex[lastOp.t].id].levels = << <<4, 2>> >>
    /\ Len(calls) = 7

PowerOfTwoStorage(t) ==
    IsPowerOfTwo(tex[t].glSize[1]) /\ IsPowerOfTwo(tex[t].glSize[2])

\* C18 as claimed: a Texture (with a handle) that has hasMipmaps has
\* power-of-two storage, whichever operation set hasMipmaps.
C18_MipmapsArePowerOfTwo_AnyOperation ==
    \A t \in Valid : tex[t].hasMipmaps => PowerOfTwoStorage(t)

\* C18 as amended: a Texture with a handle whose hasMipmaps was set by
\* construct-from-image with buildMipmaps has power-of-two storage, in every
\* state of its life.
C18_MipmapsArePowerOfTwo ==
    \A t \in Valid :
        (tex[t].hasMipmaps /\ mipmapsBy[t] = "TextureFromImage")
        => PowerOfTwoStorage(t)

\* C18 happens: a 3x2 image got its mipmaps on a card that supports
\* non-power-of-two textures, and the hardware mipmaps were built later
C18_Witness ==
    /\ caps.npot
    /\ lastOp.op = "buildHardwareMipmaps"
    /\ lastOp.ret
    /\ lastOp.t \in Valid
    /\ mipmapsBy[lastOp.t] = "TextureFromImage"
    /\ tex[lastOp.t].hasMipmaps
    /\ tex[lastOp.t].size = <<3, 2>>
    /\ tex[lastOp.t].glSize = <<4, 2>>

\* the calls that upload, set a parameter, copy from the screen or generate
\* mipmaps
GpuCalls ==
    {"glTexImage2D", "glTexParameteri", "glCopyTexSubImage2D", "glGenerateMipmap"}

GpuCallsAt(cs) == {i \in 1..Len(cs) : cs[i].fn \in GpuCalls}

BindsAt(cs, id) ==
    {i \in 1..Len(cs) : cs[i].fn = "glBindTexture" /\ cs[i].arg = <<id>>}

\* C19: whatever operations came before on whichever Textures, every upload,
\* parameter, screen-copy or mipmap-generation call of an operation on a
\* Texture T is issued while T's handle is in the bind slot and T is the
\* painter's current texture, after the operation bound T; and the operation
\* leaves the GL-side pixels, wrap and filters of every other valid Texture's
\* handle as they were.
C19_BoundWhileCalling ==
    [][LET T == lastOp'.t
           id == tex'[T].id
       IN  /\ \A i \in GpuCallsAt(calls') :
                 /\ calls'[i].h = id
                 /\ calls'[i].p = T
                 /\ \E b \in BindsAt(calls', id) : b < i
           /\ \A u \in Valid :
                 (u # T /\ tex'[u] = tex[u]) => gl'[tex[u].id] = gl[tex[u].id]
           /\ \A u \in Valid : u # T => tex'[u] = tex[u]]_vars

\* C19 happens: the wrap of one valid Texture was set, binding it first, while
\* another valid Texture keeps the other wrap on its own handle
C19_Witness ==
    /\ lastOp.op = "setRepeat"
    /\ lastOp.arg = <<TRUE>>
    /\ ~lastOp.pre.repeat
    /\ lastOp.t \in Valid
    /\ GpuCallsAt(calls) # {}
    /\ calls[1].fn = "glBindTexture"
    /\ \E u \in Valid :
          /\ u # lastOp.t
          /\ tex[u].id # tex[lastOp.t].id
          /\ ~tex[u].repeat
          /\ gl[tex[u].id].wrapS # gl[tex[lastOp.t].id].wrapS

\* the image the caller handed to the constructor, as it was
SourceImage ==
    [size |-> AskedSize, bpp |-> lastOp.arg[3], level |-> 0, buf |-> "source"]

\* that image halved down to its last level, 1x1
SourceAtLastLevel ==
    [SourceImage EXCEPT !.size = <<1, 1>>,
                        !.level = CeilLog2(Max(AskedSize[1], AskedSize[2]))]

\* C20 as claimed: construct-from-image leaves the caller's image as it was
\* whenever buildMipmaps is false or storageSize differs from logicalSize,
\* and halves it in place down to its last level exactly when buildMipmaps
\* is true and storageSize equals logicalSize.
C20_SourceHalvedWhenShared_AnyOutcome ==
    lastOp.op = "TextureFromImage"
    => IF lastOp.arg[2] /\ tex[lastOp.t].glSize = tex[lastOp.t].size
       THEN lastOp.img = SourceAtLastLevel
       ELSE lastOp.img = SourceImage

\* C20 as amended: a construct-from-image that ends with a handle leaves the
\* caller's image as it was whenever buildMipmaps is false or storageSize
\* differs from logicalSize, and halves it in place down to its last level
\* exactly when buildMipmaps is true and storageSize equals logicalSize; one
\* that fails the size negotiation leaves the caller's image as it was.
C20_SourceHalvedWhenShared ==
    lastOp.op = "TextureFromImage"
    => IF /\ tex[lastOp.t].id # 0
          /\ lastOp.arg[2]
          /\ tex[lastOp.t].glSize = tex[lastOp.t].size
       THEN lastOp.img = SourceAtLastLevel
       ELSE lastOp.img = SourceImage

\* C20 happens: a 2x2 image was given with buildMipmaps, stored as it is, and
\* came back 1x1
C20_Witness ==
    /\ lastOp.op = "TextureFromImage"
    /\ lastOp.arg[1] = <<2, 2>>
    /\ lastOp.arg[2]
    /\ tex[lastOp.t].id # 0
    /\ tex[lastOp.t].glSize = tex[lastOp.t].size
    /\ lastOp.img.buf = "source"
    /\ lastOp.img.size = <<1, 1>>
    /\ lastOp.img.level = 1

====
